---------------------------- MODULE Spec2Model ----------------------------
(***************************************************************************)
(* The code agent of code_agent.py (eager-read Explore) and                *)
(* code_agent_poml.py (deferred-request Explore): the path guard, the      *)
(* filesystem operations, the agent memory, the action executor and the    *)
(* control loop run(), over a small concrete filesystem.                   *)
(*                                                                         *)
(* A path string is modelled by the record [abs, segs]: whether it starts  *)
(* with "/" and the list of its segments as written ("." and ".." kept).   *)
(* Two path strings are equal iff their records are equal.  A filesystem   *)
(* location is the list of segments of a canonical absolute path.          *)
(***************************************************************************)
EXTENDS Integers, Sequences, FiniteSets, TLC

\* ------------------------------------------------------------------ bounds

\* The largest iteration budget run() is started with.
MaxIter == 2
\* The largest max_files an explore action carries.
MaxFilesCap == 1
\* The largest number of changes the outside world makes to the repository's
\* files during a run.
MaxOob == 1

\* ------------------------------------------------------- paths as strings

Rel(s) == [abs |-> FALSE, segs |-> s]
Abs(s) == [abs |-> TRUE, segs |-> s]

\* The characters of a segment name.
NameChars(n) ==
    CASE n = "r2" -> <<"r", "2">>
      [] n = "ln" -> <<"l", "n">>
      [] n = ".." -> <<".", ".">>
      [] OTHER    -> <<n>>

RECURSIVE StrOfSegs(_)
\* str() of an absolute path, as a list of characters: "/" before each segment.
StrOfSegs(s) ==
    IF s = <<>> THEN <<>>
    ELSE <<"/">> \o NameChars(Head(s)) \o StrOfSegs(Tail(s))

StrOf(s) == IF s = <<>> THEN <<"/">> ELSE StrOfSegs(s)

\* Python's str.startswith on two character lists.
StartsWith(s, prefix) ==
    /\ Len(prefix) <= Len(s)
    /\ SubSeq(s, 1, Len(prefix)) = prefix

Front(s) == SubSeq(s, 1, Len(s) - 1)
Last(s) == s[Len(s)]
SeqToSet(s) == {s[i] : i \in DOMAIN s}

\* PurePath construction drops "." segments and keeps "..".
RECURSIVE DropDots(_)
DropDots(s) ==
    IF s = <<>> THEN <<>>
    ELSE IF Head(s) = "." THEN DropDots(Tail(s))
    ELSE <<Head(s)>> \o DropDots(Tail(s))

\* The repository root, Path(repo_path).resolve(): /w/r.
repo_path == <<"w", "r">>

\* self.repo_path / file_path: an absolute right operand replaces the left one.
JoinRepo(p) == IF p.abs THEN DropDots(p.segs) ELSE repo_path \o DropDots(p.segs)

\* ------------------------------------------------------------ filesystem

\* The symbolic links of the filesystem: /w/r/ln -> /w.  The agent has no
\* operation that creates a link.
Links == (<<"w", "r", "ln">> :> <<"w">>)

NoLoc == <<"!">>

\* The file locations of the model: /w/r/a, /w/r/d/b inside the repository,
\* /w/r2/s in the directory next to it, /w/x/o outside.
LocA == <<"w", "r", "a">>
LocB == <<"w", "r", "d", "b">>
LocS == <<"w", "r2", "s">>
LocO == <<"w", "x", "o">>
\* A file of a virtual environment inside the repository: /w/r/venv/v.
LocV == <<"w", "r", "venv", "v">>

\* The contents files have at the start ("X"), the contents the oracle adds
\* files with and the content it edits files to.
Contents == {"X", "Y"}
EditContents == {"Y"}

RECURSIVE realpath(_, _)
\* os.path.realpath (Path.resolve, strict=False): ".." pops the last
\* component of what is resolved so far, a symbolic link is replaced by its
\* target, a component that does not exist is kept as written.
realpath(path, rest) ==
    IF rest = <<>> THEN path
    ELSE LET name == Head(rest)
             newpath == Append(path, name)
         IN  IF name = "." THEN realpath(path, Tail(rest))
             ELSE IF name = ".." THEN realpath(Front(path), Tail(rest))
             ELSE IF newpath \in DOMAIN Links
                  THEN realpath(Links[newpath], Tail(rest))
                  ELSE realpath(newpath, Tail(rest))

Resolve(full) == realpath(<<>>, full)

\* Path.resolve() raises (ValueError: embedded null byte) when a component
\* holds a NUL character; "NUL" stands for such a component.
ResolveRaises(full) == "NUL" \in SeqToSet(full)

RECURSIVE Lookup(_, _, _)
\* The kernel's path walk, as exists(), is_file(), is_dir(), open(), unlink()
\* and mkdir() do it: every component before the last must be an existing
\* directory, ".." is the parent directory, links are followed.  The result
\* is the location the path names (which may hold nothing), or NoLoc.
Lookup(dirs, cur, rest) ==
    IF rest = <<>> THEN cur
    ELSE IF cur \notin dirs THEN NoLoc
    ELSE LET name == Head(rest)
             child == Append(cur, name)
         IN  IF name = "." THEN Lookup(dirs, cur, Tail(rest))
             ELSE IF name = ".." THEN Lookup(dirs, Front(cur), Tail(rest))
             ELSE IF child \in DOMAIN Links
                  THEN Lookup(dirs, Links[child], Tail(rest))
                  ELSE Lookup(dirs, child, Tail(rest))

LocOf(dirs, full) == Lookup(dirs, <<>>, full)

IsFileAt(files, l) == l \in DOMAIN files
IsDirAt(dirs, l) == l \in dirs
ExistsAt(files, dirs, l) == l # NoLoc /\ (IsFileAt(files, l) \/ IsDirAt(dirs, l))


\* ------------------------------------------------------------ program state

VARIABLES
    config,              \* what the constructor was given (see Configs)
    variant,             \* "eager": code_agent.py, "poml": code_agent_poml.py
    fs_files,            \* the regular files: location -> content
    fs_dirs,             \* the directories: a set of locations
    read_files,          \* AgentMemory.read_files
    edited_files,        \* AgentMemory.edited_files
    walked_directories,  \* AgentMemory.walked_directories
    file_contents_cache, \* AgentMemory.file_contents_cache
    important_findings,  \* AgentMemory.important_findings
    requested_files,     \* CodeAgent.requested_files (code_agent_poml.py)
    requested_dirs,      \* CodeAgent.requested_dirs (code_agent_poml.py)
    max_iterations,      \* run()'s argument
    iterations,          \* run()'s local counter
    actions_taken,       \* run()'s list of records
    response,            \* decide_next_action()'s local: what the oracle returned
    action,              \* run()'s local: the action of the current iteration
    success,             \* run()'s local: what execute_action returned
    result,              \* what the last explore returned (file_contents)
    summary,             \* what run() returned
    pc,                  \* where run() is: "loop" at the while test,
                         \* "executed" at the end of the loop body, "done",
                         \* "raised" when an exception left run();
                         \* "no_agent" when the constructor raised
    oracle_calls,        \* how many times _call_azure_openai was called
    fs_access,           \* the path strings the current turn handed to a
                         \* filesystem call (exists, walk, open, unlink)
    oob                  \* how many times the filesystem was changed from outside

vars == <<config, variant, fs_files, fs_dirs, read_files, edited_files,
          walked_directories, file_contents_cache, important_findings,
          requested_files, requested_dirs, max_iterations, iterations,
          actions_taken, response, action, success, result, summary, pc, oracle_calls,
          fs_access, oob>>

\* The filesystem and the memory as one record, so that the operations
\* compose as they do in the code.
World ==
    [files |-> fs_files, dirs |-> fs_dirs, read |-> read_files,
     edited |-> edited_files, walked |-> walked_directories,
     cache |-> file_contents_cache, findings |-> important_findings,
     req_files |-> requested_files, req_dirs |-> requested_dirs,
     accessed |-> fs_access]

Ret(ok, w) == [ok |-> ok, w |-> w]

EmptyMap == [x \in {} |-> ""]
Without(f, k) == [x \in (DOMAIN f) \ {k} |-> f[x]]

\* ------------------------------------------------------------- path guard

\* A guard that compares the joined path as written, without resolving it.
validate_path_unresolved(file_path) ==
    LET full_path == JoinRepo(file_path)
    IN  IF ResolveRaises(full_path) THEN FALSE
        ELSE StartsWith(StrOf(full_path), StrOf(repo_path))

\* _validate_path_in_repo: str(resolved).startswith(str(repo_resolved)),
\* and False when resolving raised.
validate_path_in_repo(file_path) ==
    LET full_path == JoinRepo(file_path)
        resolved_path == Resolve(full_path)
        repo_resolved == Resolve(repo_path)
    IN  IF ResolveRaises(full_path) THEN FALSE
        ELSE StartsWith(StrOf(resolved_path), StrOf(repo_resolved))

\* --------------------------------------------------- filesystem operations

\* A filesystem call is made on the path string p.
Touch(w, p) == [w EXCEPT !.accessed = @ \cup {p}]

\* An edit_file without the existence test: open(full_path, "w") creates
\* the file when its directory exists.
edit_file_creating(w0, file_path, new_content, io) ==
    IF ~validate_path_in_repo(file_path) THEN Ret(FALSE, w0)
    ELSE LET l == LocOf(w0.dirs, JoinRepo(file_path))
             w == Touch(w0, file_path)
         IN  IF l = NoLoc \/ IsDirAt(w.dirs, l) \/ ~io THEN Ret(FALSE, w)
             ELSE Ret(TRUE, [w EXCEPT !.files = (l :> new_content) @@ @,
                                      !.edited = @ \cup {file_path},
                                      !.cache = (file_path :> new_content) @@ @])

\* An edit_file that writes the file and leaves the cache as it was.
edit_file_stale_cache(w0, file_path, new_content, io) ==
    IF ~validate_path_in_repo(file_path) THEN Ret(FALSE, w0)
    ELSE LET full_path == JoinRepo(file_path)
             l == LocOf(w0.dirs, full_path)
             w == Touch(w0, file_path)
         IN  IF ~ExistsAt(w.files, w.dirs, l) THEN Ret(FALSE, w)
             ELSE IF IsDirAt(w.dirs, l) \/ ~io THEN Ret(FALSE, w)
             ELSE Ret(TRUE, [w EXCEPT !.files = (l :> new_content) @@ @,
                                      !.edited = @ \cup {file_path}])

\* edit_file.  io = FALSE: the operating system refuses the open().
edit_file(w0, file_path, new_content, io) ==
    IF ~validate_path_in_repo(file_path) THEN Ret(FALSE, w0)
    ELSE LET full_path == JoinRepo(file_path)
             l == LocOf(w0.dirs, full_path)
             w == Touch(w0, file_path)
         IN  IF ~ExistsAt(w.files, w.dirs, l) THEN Ret(FALSE, w)
             ELSE IF IsDirAt(w.dirs, l) \/ ~io THEN Ret(FALSE, w)
             ELSE Ret(TRUE, [w EXCEPT !.files = (l :> new_content) @@ @,
                                      !.edited = @ \cup {file_path},
                                      !.cache = (file_path :> new_content) @@ @])

RECURSIVE MkdirParents(_, _, _)
\* Path.mkdir(parents=True, exist_ok=True): an existing directory is fine,
\* a missing parent is created first.
MkdirParents(files, dirs, path) ==
    LET l == LocOf(dirs, path)
    IN  IF l # NoLoc /\ IsDirAt(dirs, l) THEN [ok |-> TRUE, dirs |-> dirs]
        ELSE IF l # NoLoc /\ IsFileAt(files, l) THEN [ok |-> FALSE, dirs |-> dirs]
        ELSE IF l # NoLoc THEN [ok |-> TRUE, dirs |-> dirs \cup {l}]
        ELSE IF path = <<>> THEN [ok |-> FALSE, dirs |-> dirs]
        ELSE LET up == MkdirParents(files, dirs, Front(path))
                 l2 == LocOf(up.dirs, path)
             IN  IF ~up.ok \/ l2 = NoLoc \/ IsFileAt(files, l2)
                 THEN [ok |-> FALSE, dirs |-> up.dirs]
                 ELSE [ok |-> TRUE, dirs |-> up.dirs \cup {l2}]

\* An add_file without the existence test: it overwrites.
add_file_overwriting(w0, file_path, content, io) ==
    IF ~validate_path_in_repo(file_path) THEN Ret(FALSE, w0)
    ELSE LET full_path == JoinRepo(file_path)
             w == Touch(w0, file_path)
             made == MkdirParents(w.files, w.dirs, Front(full_path))
             l2 == LocOf(made.dirs, full_path)
             w2 == [w EXCEPT !.dirs = made.dirs]
         IN  IF ~made.ok \/ l2 = NoLoc \/ IsDirAt(made.dirs, l2) \/ ~io
             THEN Ret(FALSE, w2)
             ELSE Ret(TRUE, [w2 EXCEPT !.files = (l2 :> content) @@ @,
                                       !.cache = (file_path :> content) @@ @])

\* An add_file that marks the new file as read.
add_file_marking_read(w0, file_path, content, io) ==
    IF ~validate_path_in_repo(file_path) THEN Ret(FALSE, w0)
    ELSE LET full_path == JoinRepo(file_path)
             l == LocOf(w0.dirs, full_path)
             w == Touch(w0, file_path)
         IN  IF ExistsAt(w.files, w.dirs, l) THEN Ret(FALSE, w)
             ELSE LET made == MkdirParents(w.files, w.dirs, Front(full_path))
                      l2 == LocOf(made.dirs, full_path)
                      w2 == [w EXCEPT !.dirs = made.dirs]
                  IN  IF ~made.ok \/ l2 = NoLoc \/ IsDirAt(made.dirs, l2) \/ ~io
                      THEN Ret(FALSE, w2)
                      ELSE Ret(TRUE, [w2 EXCEPT !.files = (l2 :> content) @@ @,
                                                !.cache = (file_path :> content) @@ @,
                                                !.read = @ \cup {file_path}])

\* add_file.
add_file(w0, file_path, content, io) ==
    IF ~validate_path_in_repo(file_path) THEN Ret(FALSE, w0)
    ELSE LET full_path == JoinRepo(file_path)
             l == LocOf(w0.dirs, full_path)
             w == Touch(w0, file_path)
         IN  IF ExistsAt(w.files, w.dirs, l) THEN Ret(FALSE, w)
             ELSE LET made == MkdirParents(w.files, w.dirs, Front(full_path))
                      l2 == LocOf(made.dirs, full_path)
                      w2 == [w EXCEPT !.dirs = made.dirs]
                  IN  IF ~made.ok \/ l2 = NoLoc \/ IsDirAt(made.dirs, l2) \/ ~io
                      THEN Ret(FALSE, w2)
                      ELSE Ret(TRUE, [w2 EXCEPT !.files = (l2 :> content) @@ @,
                                                !.cache = (file_path :> content) @@ @])

\* A remove_file that does not ask the path guard.
remove_file_unguarded(w0, file_path, io) ==
    LET l == LocOf(w0.dirs, JoinRepo(file_path))
        w == Touch(w0, file_path)
    IN  IF ~ExistsAt(w.files, w.dirs, l) THEN Ret(FALSE, w)
        ELSE IF IsDirAt(w.dirs, l) \/ ~io THEN Ret(FALSE, w)
        ELSE Ret(TRUE, [w EXCEPT !.files = Without(@, l),
                                 !.cache = Without(@, file_path),
                                 !.read = @ \ {file_path},
                                 !.edited = @ \ {file_path}])

\* A remove_file that unlinks the file and leaves the memory as it was.
remove_file_keeping_memory(w0, file_path, io) ==
    IF ~validate_path_in_repo(file_path) THEN Ret(FALSE, w0)
    ELSE LET l == LocOf(w0.dirs, JoinRepo(file_path))
             w == Touch(w0, file_path)
         IN  IF ~ExistsAt(w.files, w.dirs, l) THEN Ret(FALSE, w)
             ELSE IF IsDirAt(w.dirs, l) \/ ~io THEN Ret(FALSE, w)
             ELSE Ret(TRUE, [w EXCEPT !.files = Without(@, l)])

\* A remove_file that drops the cached content of the path and leaves the
\* path in read_files.
remove_file_keeping_read(w0, file_path, io) ==
    IF ~validate_path_in_repo(file_path) THEN Ret(FALSE, w0)
    ELSE LET l == LocOf(w0.dirs, JoinRepo(file_path))
             w == Touch(w0, file_path)
         IN  IF ~ExistsAt(w.files, w.dirs, l) THEN Ret(FALSE, w)
             ELSE IF IsDirAt(w.dirs, l) \/ ~io THEN Ret(FALSE, w)
             ELSE Ret(TRUE, [w EXCEPT !.files = Without(@, l),
                                      !.cache = Without(@, file_path),
                                      !.edited = @ \ {file_path}])

\* A remove_file that forgets what the memory holds about a path whose
\* file is not there.
remove_file_forgetting_missing(w0, file_path, io) ==
    IF ~validate_path_in_repo(file_path) THEN Ret(FALSE, w0)
    ELSE LET l == LocOf(w0.dirs, JoinRepo(file_path))
             w == Touch(w0, file_path)
             forgotten == [w EXCEPT !.cache = Without(@, file_path),
                                    !.read = @ \ {file_path},
                                    !.edited = @ \ {file_path}]
         IN  IF ~ExistsAt(w.files, w.dirs, l) THEN Ret(FALSE, forgotten)
             ELSE IF IsDirAt(w.dirs, l) \/ ~io THEN Ret(FALSE, w)
             ELSE Ret(TRUE, [forgotten EXCEPT !.files = Without(@, l)])

\* remove_file.
remove_file(w0, file_path, io) ==
    IF ~validate_path_in_repo(file_path) THEN Ret(FALSE, w0)
    ELSE LET full_path == JoinRepo(file_path)
             l == LocOf(w0.dirs, full_path)
             w == Touch(w0, file_path)
         IN  IF ~ExistsAt(w.files, w.dirs, l) THEN Ret(FALSE, w)
             ELSE IF IsDirAt(w.dirs, l) \/ ~io THEN Ret(FALSE, w)
             ELSE Ret(TRUE, [w EXCEPT !.files = Without(@, l),
                                      !.cache = Without(@, file_path),
                                      !.read = @ \ {file_path},
                                      !.edited = @ \ {file_path}])


\* The directory names os.walk is told to skip, and hidden names.
IgnoredDirs == {"__pycache__", "node_modules", "venv", "env", ".git"}
Hidden(n) == Head(NameChars(n)) = "."

\* The files os.walk(top) yields from the directory at location l, after the
\* filters of walk_directory: no hidden or ignored directory on the way, no
\* hidden file name.  Links to directories are listed but not descended, and
\* locations are canonical, so these are the files whose location extends l.
WalkedFiles(files, l) ==
    {f \in DOMAIN files :
        /\ Len(f) > Len(l)
        /\ SubSeq(f, 1, Len(l)) = l
        /\ \A i \in (Len(l) + 1) .. (Len(f) - 1) :
              ~Hidden(f[i]) /\ f[i] \notin IgnoredDirs
        /\ ~Hidden(Last(f))}

\* A walk_directory that never records what it walked.
walk_directory_forgetting(w0, subdirectory) ==
    LET w == Touch(w0, subdirectory)
        target_path == IF subdirectory # Rel(<<>>) THEN JoinRepo(subdirectory)
                       ELSE repo_path
        l == LocOf(w.dirs, target_path)
        found == WalkedFiles(w.files, l)
        full(f) == target_path \o SubSeq(f, Len(l) + 1, Len(f))
    IN  IF ~ExistsAt(w.files, w.dirs, l) THEN [files |-> {}, w |-> w]
        ELSE [files |-> {Rel(SubSeq(full(f), Len(repo_path) + 1, Len(full(f)))) :
                            f \in found},
              w |-> w]

\* A walk_directory that records the directory before it looks whether it
\* exists.
walk_directory_recording_first(w0, subdirectory) ==
    LET w == Touch(w0, subdirectory)
        target_path == IF subdirectory # Rel(<<>>) THEN JoinRepo(subdirectory)
                       ELSE repo_path
        l == LocOf(w.dirs, target_path)
        found == WalkedFiles(w.files, l)
        full(f) == target_path \o SubSeq(f, Len(l) + 1, Len(f))
        recorded == [w EXCEPT !.walked = @ \cup {Abs(target_path)}]
    IN  IF Abs(target_path) \in w.walked THEN [files |-> {}, w |-> w]
        ELSE IF ~ExistsAt(w.files, w.dirs, l) THEN [files |-> {}, w |-> recorded]
        ELSE [files |-> {Rel(SubSeq(full(f), Len(repo_path) + 1, Len(full(f)))) :
                            f \in found},
              w |-> recorded]

\* walk_directory: the set of paths found (the code returns a list of
\* distinct paths, in os.walk's order) and the new memory.  relative_to
\* raises when a found path does not start with repo_path as written; the
\* exception handler then skips the walked_directories.add.  What was
\* collected before the raise is returned: the empty list when no found path
\* starts with repo_path, which is the only such case the inputs produce.
walk_directory(w0, subdirectory) ==
    LET w == Touch(w0, subdirectory)
        target_path == IF subdirectory # Rel(<<>>) THEN JoinRepo(subdirectory)
                       ELSE repo_path
        l == LocOf(w.dirs, target_path)
        found == WalkedFiles(w.files, l)
        full(f) == target_path \o SubSeq(f, Len(l) + 1, Len(f))
        relative(f) == StartsWith(full(f), repo_path)
        rel_path(f) == Rel(SubSeq(full(f), Len(repo_path) + 1, Len(full(f))))
    IN  IF ~ExistsAt(w.files, w.dirs, l) THEN [files |-> {}, w |-> w]
        ELSE IF Abs(target_path) \in w.walked THEN [files |-> {}, w |-> w]
        ELSE IF \E f \in found : ~relative(f)
             THEN [files |-> {}, w |-> w]
             ELSE [files |-> {rel_path(f) : f \in found},
                   w |-> [w EXCEPT !.walked = @ \cup {Abs(target_path)}]]

\* A test that serves every cached path from the cache.
CachedKey(w, file_path) == file_path \in DOMAIN w.cache

\* The test of read_files that serves a path from the cache.
Cached(w, file_path) ==
    file_path \in w.read /\ file_path \in DOMAIN w.cache

\* One turn of the loop of read_files: whether file_path gets a content, and
\* which.  io = FALSE: the operating system refuses the open().
ReadHit(w, file_path, io) ==
    LET l == LocOf(w.dirs, JoinRepo(file_path))
    IN  \/ Cached(w, file_path)
        \/ ExistsAt(w.files, w.dirs, l) /\ IsFileAt(w.files, l) /\ io

ReadContent(w, file_path) ==
    IF Cached(w, file_path)
    THEN w.cache[file_path]
    ELSE w.files[LocOf(w.dirs, JoinRepo(file_path))]

\* A read_files that gives up on the whole list when one of its paths
\* cannot be read.
ReadFilesAllOrNothing(w, file_paths, io) ==
    IF \A p \in file_paths : ReadHit(w, p, io)
    THEN LET contents == [p \in file_paths |-> ReadContent(w, p)]
         IN  [contents |-> contents,
              w |-> [w EXCEPT !.cache = contents @@ @,
                              !.read = @ \cup file_paths,
                              !.accessed = @ \cup {p \in file_paths : ~Cached(w, p)}]]
    ELSE [contents |-> EmptyMap,
          w |-> [w EXCEPT !.accessed = @ \cup {p \in file_paths : ~Cached(w, p)}]]

\* read_files on the paths of a list: a turn of its loop reads and writes
\* only the entries of its own path, so the turns are independent.
ReadFiles(w, file_paths, io) ==
    LET got == {p \in file_paths : ReadHit(w, p, io)}
        contents == [p \in got |-> ReadContent(w, p)]
        looked == {p \in file_paths : ~Cached(w, p)}
    IN  [contents |-> contents,
         w |-> [w EXCEPT !.cache = contents @@ @,
                         !.read = @ \cup got,
                         !.accessed = @ \cup looked]]

RECURSIVE WalkAll(_, _)
\* The first loop of explore_repository: which directories are walked, what
\* they yield (all_discovered_files as a set, and its length) and the new
\* memory.
WalkAll(w, directories) ==
    IF directories = <<>>
    THEN [w |-> w, discovered |-> {}, n |-> 0, explored |-> 0]
    ELSE LET directory == Head(directories)
         IN  IF directory # Rel(<<>>) /\ directory \notin w.walked
             THEN LET one == walk_directory(w, directory)
                      more == WalkAll(one.w, Tail(directories))
                  IN  [w |-> more.w,
                       discovered |-> one.files \cup more.discovered,
                       n |-> Cardinality(one.files) + more.n,
                       explored |-> 1 + more.explored]
             ELSE WalkAll(w, Tail(directories))

Min(a, b) == IF a <= b THEN a ELSE b

\* files_to_read of explore_repository: list(set(files + all_discovered_files)).
FilesToRead(w, directories, files) ==
    SeqToSet(files) \cup WalkAll(w, directories).discovered

\* A files_to_read that is not cut to max_files.
NoTruncation(candidates, max_files) == {candidates}

\* len(xs[:max_files]) for a list of n elements: a negative max_files counts
\* from the end of the list.
SliceLen(n, max_files) ==
    IF max_files >= 0 THEN Min(max_files, n)
    ELSE IF n + max_files > 0 THEN n + max_files ELSE 0

\* files_to_read[:max_files]: the order of list(set(...)) is not fixed by the
\* language, so any candidates of that number may be the ones kept.
Truncations(candidates, max_files) ==
    {c \in SUBSET candidates :
        Cardinality(c) = SliceLen(Cardinality(candidates), max_files)}

\* explore_repository, with `kept` the candidates the truncation keeps.
explore_repository(w, directories, files, max_files, kept, io) ==
    LET walked == WalkAll(w, directories)
        files_to_read == SeqToSet(files) \cup walked.discovered
        rd == ReadFiles(walked.w, kept, io)
        files_read == Cardinality(DOMAIN rd.contents)
    IN  IF files_to_read # {}
        THEN [file_contents |-> rd.contents, files_read |-> files_read,
              w |-> [rd.w EXCEPT !.findings =
                        Append(@, <<walked.explored, walked.n, files_read>>)]]
        ELSE [file_contents |-> EmptyMap, files_read |-> 0, w |-> walked.w]


\* ------------------------------------------------------------------ actions

NoPath == Rel(<<>>)

\* An AgentAction.  payload: whether the parameter object named by
\* action_type is populated.  The thought_process texts are left out.
ExploreAction(directories, files, max_files, findings) ==
    [action_type |-> "explore", payload |-> TRUE, file_path |-> NoPath,
     content |-> "", directories |-> directories, files |-> files,
     max_files |-> max_files, findings |-> findings, complete |-> FALSE]

FileAction(kind, file_path, content, findings) ==
    [action_type |-> kind, payload |-> TRUE, file_path |-> file_path,
     content |-> content, directories |-> <<>>, files |-> <<>>,
     max_files |-> 0, findings |-> findings, complete |-> FALSE]

BareAction(kind, findings) ==
    [action_type |-> kind, payload |-> FALSE, file_path |-> NoPath,
     content |-> "", directories |-> <<>>, files |-> <<>>,
     max_files |-> 0, findings |-> findings, complete |-> FALSE]

\* Python's None: what _call_azure_openai returns when the call fails or the
\* response holds nothing, and what decide_next_action returns to stop.
None == [action_type |-> "None"]

\* A decide_next_action that stops on complete only when the response
\* carries no parameter object.
decide_executing_complete_payload(resp) ==
    IF resp = None THEN None
    ELSE IF resp.complete /\ ~resp.payload THEN None
    ELSE resp

\* A decide_next_action that does not look at the complete flag.
decide_ignoring_complete(resp) == resp

\* decide_next_action, given what _call_azure_openai returned.
decide_next_action(resp) ==
    IF resp = None THEN None
    ELSE IF resp.complete THEN None
    ELSE resp

RECURSIVE RequestDirs(_, _)
\* The directory loop of the explore branch of execute_action
\* (code_agent_poml.py).
RequestDirs(w, directories) ==
    IF directories = <<>> THEN w
    ELSE LET dir_path == Head(directories)
             l == LocOf(w.dirs, JoinRepo(dir_path))
         IN  IF ~validate_path_in_repo(dir_path)
             THEN RequestDirs(w, Tail(directories))
             ELSE IF ExistsAt(w.files, w.dirs, l) /\ IsDirAt(w.dirs, l)
             THEN RequestDirs([w EXCEPT !.walked = @ \cup {dir_path},
                                        !.req_dirs = Append(@, dir_path),
                                        !.accessed = @ \cup {dir_path}],
                              Tail(directories))
             ELSE RequestDirs(Touch(w, dir_path), Tail(directories))

RECURSIVE RequestFilesStopping(_, _)
\* A file loop that ends at the first target it does not accept.
RequestFilesStopping(w, files) ==
    IF files = <<>> THEN w
    ELSE LET file_path == Head(files)
             l == LocOf(w.dirs, JoinRepo(file_path))
         IN  IF ~validate_path_in_repo(file_path) THEN w
             ELSE IF ExistsAt(w.files, w.dirs, l) /\ IsFileAt(w.files, l)
             THEN RequestFilesStopping([w EXCEPT !.read = @ \cup {file_path},
                                                 !.req_files = Append(@, file_path),
                                                 !.accessed = @ \cup {file_path}],
                                       Tail(files))
             ELSE Touch(w, file_path)

RECURSIVE RequestFiles(_, _)
\* The file loop of the explore branch of execute_action (code_agent_poml.py).
RequestFiles(w, files) ==
    IF files = <<>> THEN w
    ELSE LET file_path == Head(files)
             l == LocOf(w.dirs, JoinRepo(file_path))
         IN  IF ~validate_path_in_repo(file_path)
             THEN RequestFiles(w, Tail(files))
             ELSE IF ExistsAt(w.files, w.dirs, l) /\ IsFileAt(w.files, l)
             THEN RequestFiles([w EXCEPT !.read = @ \cup {file_path},
                                         !.req_files = Append(@, file_path),
                                         !.accessed = @ \cup {file_path}],
                               Tail(files))
             ELSE RequestFiles(Touch(w, file_path), Tail(files))

\* A start of execute_action that replaces the findings by the action's.
BeforeDispatchReplacing(v, w, a) ==
    IF v = "poml"
    THEN [w EXCEPT !.findings = a.findings,
                   !.req_dirs = <<>>, !.req_files = <<>>,
                   !.accessed = {}]
    ELSE [w EXCEPT !.accessed = {}]

\* A start of execute_action that keeps the findings of an action whose
\* parameter object is missing out of the memory.
BeforeDispatchIfPayload(v, w, a) ==
    IF v = "poml"
    THEN [w EXCEPT !.findings = IF a.payload THEN @ \o a.findings ELSE @,
                   !.req_dirs = <<>>, !.req_files = <<>>,
                   !.accessed = {}]
    ELSE [w EXCEPT !.accessed = {}]

\* What execute_action does before it dispatches: nothing in code_agent.py;
\* in code_agent_poml.py the action's findings are appended and the request
\* lists are emptied.
BeforeDispatch(v, w, a) ==
    IF v = "poml"
    THEN [w EXCEPT !.findings = @ \o a.findings,
                   !.req_dirs = <<>>, !.req_files = <<>>,
                   !.accessed = {}]
    ELSE [w EXCEPT !.accessed = {}]

\* full_path.exists() raises OSError (ENAMETOOLONG, which pathlib does not
\* take for "no such file") when a component is longer than the filesystem
\* allows; "LONG" stands for such a component.  Path.resolve() does not
\* raise on it.
StatRaises(full) == "LONG" \in SeqToSet(full)

\* The position of the first target of an explore loop of
\* code_agent_poml.py whose exists() raises (the guard has accepted it), or 0.
FirstRaising(targets) ==
    LET raising == {i \in DOMAIN targets :
                       /\ validate_path_in_repo(targets[i])
                       /\ StatRaises(JoinRepo(targets[i]))}
    IN  IF raising = {} THEN 0
        ELSE CHOOSE i \in raising : \A j \in raising : i <= j

\* The explore branch of execute_action: [ok, w, contents].  In
\* code_agent_poml.py an exception of a loop leaves through the handler of
\* execute_action, which returns False: the targets before the raising one
\* have been handled, the others have not.
ExecExplore(v, w, a, kept, io) ==
    IF v = "poml"
    THEN LET di == FirstRaising(a.directories)
             fi == FirstRaising(a.files)
             failed(u, p) == [ok |-> FALSE, contents |-> EmptyMap,
                              w |-> Touch(u, p)]
         IN  IF di > 0
             THEN failed(RequestDirs(w, SubSeq(a.directories, 1, di - 1)),
                         a.directories[di])
             ELSE IF fi > 0
             THEN failed(RequestFiles(RequestDirs(w, a.directories),
                                      SubSeq(a.files, 1, fi - 1)),
                         a.files[fi])
             ELSE [ok |-> TRUE, contents |-> EmptyMap,
                   w |-> RequestFiles(RequestDirs(w, a.directories), a.files)]
    ELSE LET r == explore_repository(w, a.directories, a.files, a.max_files,
                                     kept, io)
         IN  [ok |-> TRUE, contents |-> r.file_contents, w |-> r.w]

\* The dispatch of execute_action raises: edit_file, add_file and
\* remove_file call full_path.exists() outside their own try block, after
\* the path guard.
DispatchRaises(a) ==
    /\ a.payload
    /\ a.action_type \in {"edit_file", "add_file", "remove_file"}
    /\ validate_path_in_repo(a.file_path)
    /\ StatRaises(JoinRepo(a.file_path))

\* An execute_action that runs an action without its parameter object as
\* if the parameters had their default values.
execute_action_defaulting(v, w0, a, kept, io) ==
    LET w == BeforeDispatch(v, w0, a)
        plain(r) == [ok |-> r.ok, contents |-> EmptyMap, w |-> r.w]
    IN  IF DispatchRaises(a)
        THEN [ok |-> FALSE, contents |-> EmptyMap, w |-> Touch(w, a.file_path)]
        ELSE CASE a.action_type = "explore" -> ExecExplore(v, w, a, kept, io)
               [] a.action_type = "edit_file" ->
                     plain(edit_file(w, a.file_path, a.content, io))
               [] a.action_type = "add_file" ->
                     plain(add_file(w, a.file_path, a.content, io))
               [] a.action_type = "remove_file" ->
                     plain(remove_file(w, a.file_path, io))

\* execute_action: [ok, w, contents].  An exception of the dispatch is
\* caught and False is returned.
execute_action(v, w0, a, kept, io) ==
    LET w == BeforeDispatch(v, w0, a)
        plain(r) == [ok |-> r.ok, contents |-> EmptyMap, w |-> r.w]
    IN  IF ~a.payload THEN [ok |-> FALSE, contents |-> EmptyMap, w |-> w]
        ELSE IF DispatchRaises(a)
        THEN [ok |-> FALSE, contents |-> EmptyMap, w |-> Touch(w, a.file_path)]
        ELSE CASE a.action_type = "explore" -> ExecExplore(v, w, a, kept, io)
               [] a.action_type = "edit_file" ->
                     plain(edit_file(w, a.file_path, a.content, io))
               [] a.action_type = "add_file" ->
                     plain(add_file(w, a.file_path, a.content, io))
               [] a.action_type = "remove_file" ->
                     plain(remove_file(w, a.file_path, io))

\* The candidates the truncation of an explore action may keep (none in
\* code_agent_poml.py, which reads nothing).
KeptChoices(v, w, a) ==
    IF v = "eager" /\ a.action_type = "explore" /\ a.payload
    THEN Truncations(FilesToRead(BeforeDispatch(v, w, a), a.directories, a.files),
                     a.max_files)
    ELSE {{}}


\* ------------------------------------------------------- the oracle's inputs

\* The path strings the oracle supplies: a.txt, ./a.txt, d/b, ../r2/s,
\* ../x/o, /w/x/o and ln/x/o.
PA == Rel(<<"a">>)
PDotA == Rel(<<".", "a">>)
PB == Rel(<<"d", "b">>)
PSib == Rel(<<"..", "r2", "s">>)
PUp == Rel(<<"..", "x", "o">>)
PAbs == Abs(<<"w", "x", "o">>)
PLn == Rel(<<"ln", "x", "o">>)
FilePaths == {PA, PDotA, PB, PSib, PUp, PAbs, PLn}

\* Two more path strings, given to remove_file: ../../etc/passwd and a name
\* with a NUL character in it.
PEtc == Rel(<<"..", "..", "etc", "passwd">>)
PNul == Rel(<<"NUL">>)
GuardPaths == FilePaths \cup {PEtc, PNul}

\* A path string given to edit_file whose only component is too long a name.
PLong == Rel(<<"LONG">>)

\* The directory strings: d, ., ../r (the root again), ../r2, ../x, venv and
\* the empty string.
DD == Rel(<<"d">>)
DDot == Rel(<<".">>)
DUpR == Rel(<<"..", "r">>)
DSib == Rel(<<"..", "r2">>)
DOut == Rel(<<"..", "x">>)
DVenv == Rel(<<"venv">>)

\* The (directories, files) pairs of the explore actions: a file alone,
\* one file under two spellings, nothing at all, every directory alone, one
\* directory twice, and directories together with a file.
ExploreTargets ==
    {<<<<>>, <<p>>>> : p \in {PA, PDotA, PB, PSib, PUp}}
    \cup {<<<<>>, <<PA, PDotA>>>>, <<<<>>, <<>>>>}
    \cup {<<<<d>>, <<>>>> : d \in {DD, DDot, DUpR, DSib, DOut, DVenv, NoPath}}
    \cup {<<<<DD, DD>>, <<>>>>, <<<<DDot>>, <<PSib>>>>, <<<<DD>>, <<PA>>>>,
          <<<<DDot>>, <<PB>>>>}

Kinds == {"explore", "edit_file", "add_file", "remove_file"}

\* The findings a response carries (code_agent_poml.py only).
FindingLists(v) == IF v = "poml" THEN {<<>>, <<"note">>} ELSE {<<>>}
\* Two findings in one response.
TwoFindings == <<"note", "more">>

\* The max_files of an explore action.  code_agent_poml.py never reads the
\* field: there the oracle leaves it at its default.
DefaultMaxFiles == 20
MaxFilesChoices(v) == IF v = "poml" THEN {DefaultMaxFiles} ELSE 0 .. MaxFilesCap

\* Explores of two explicit files, d/b or d with a, that leave max_files at
\* its default or, in code_agent.py, set it to -1 (the field is an int that
\* nothing validates).
WideTargets == {<<<<>>, <<PB, PA>>>>, <<<<>>, <<DD, PA>>>>}

\* Explores of code_agent_poml.py with a target whose name is too long: after
\* the directory ".", before the file a, and as a directory.
RaisingTargets == {<<<<DDot>>, <<PLong>>>>, <<<<>>, <<PLong, PA>>>>,
                   <<<<PLong>>, <<PA>>>>}

ExploreActions(v) ==
    {ExploreAction(t[1], t[2], m, fd) :
        t \in ExploreTargets, m \in MaxFilesChoices(v), fd \in FindingLists(v)}
    \cup (IF v = "poml"
          THEN {ExploreAction(t[1], t[2], DefaultMaxFiles, fd) :
                   t \in RaisingTargets, fd \in FindingLists(v)}
          ELSE {})
    \cup {ExploreAction(t[1], t[2], DefaultMaxFiles, fd) :
             t \in WideTargets, fd \in FindingLists(v)}
    \cup (IF v = "eager"
          THEN {ExploreAction(t[1], t[2], -1, <<>>) : t \in WideTargets}
          ELSE {})

\* ------------------------------------------------------------- control loop

NoSummary == [returned |-> FALSE]

\* A summary that counts the cached files as the files read.
SummaryCountingCache(n, taken, w) ==
    [returned |-> TRUE, iterations |-> n, actions_taken |-> taken,
     files_read |-> Cardinality(DOMAIN w.cache),
     files_edited |-> Cardinality(w.edited),
     directories_walked |-> Cardinality(w.walked),
     important_findings |-> w.findings]

\* The summary run() builds after its loop.
Summary(n, taken, w) ==
    [returned |-> TRUE, iterations |-> n, actions_taken |-> taken,
     files_read |-> Cardinality(w.read),
     files_edited |-> Cardinality(w.edited),
     directories_walked |-> Cardinality(w.walked),
     important_findings |-> w.findings]

\* The filesystem when the agent is constructed.
InitFiles == (LocA :> "X") @@ (LocS :> "X") @@ (LocO :> "X") @@ (LocV :> "X")
InitDirs == {<<>>, <<"w">>, repo_path, <<"w", "r2">>, <<"w", "x">>,
             <<"w", "r", "venv">>}

\* The repo_path arguments: /w/r, which exists, and /w/gone, which does not.
RepoArgs == {repo_path, <<"w", "gone">>}

\* What the constructor is given: whether an endpoint is available (the
\* parameter or AZURE_OPENAI_ENDPOINT), whether a credential is available
\* (the parameter or the environment), and the repository path.
Configs == [endpoint : BOOLEAN, credentials : BOOLEAN, repo_path : RepoArgs]

\* A constructor that does not check that the repository exists.
CodeAgent_init_unvalidated(c, files, dirs) ==
    IF ~c.endpoint THEN "ValueError"
    ELSE IF ~c.credentials THEN "OpenAIError"
    ELSE "ok"

\* CodeAgent.__init__: the endpoint is required, the AzureOpenAI client is
\* built (it refuses to be built without a credential), and the resolved
\* repository path must exist.
CodeAgent_init(c, files, dirs) ==
    IF ~c.endpoint THEN "ValueError"
    ELSE IF ~c.credentials THEN "OpenAIError"
    ELSE IF ~ExistsAt(files, dirs, LocOf(dirs, Resolve(c.repo_path)))
         THEN "ValueError"
    ELSE "ok"

\* The state after CodeAgent(...) was called, whether it returned an agent
\* (run() is then about to start) or raised.
Constructed ==
    /\ config \in Configs
    /\ variant \in {"eager", "poml"}
    /\ fs_files = InitFiles
    /\ fs_dirs = InitDirs
    /\ read_files = {}
    /\ edited_files = {}
    /\ walked_directories = {}
    /\ file_contents_cache = EmptyMap
    /\ important_findings = <<>>
    /\ requested_files = <<>>
    /\ requested_dirs = <<>>
    /\ max_iterations \in 0 .. MaxIter
    /\ iterations = 0
    /\ actions_taken = <<>>
    /\ response = None
    /\ action = None
    /\ success = FALSE
    /\ result = EmptyMap
    /\ summary = NoSummary
    /\ pc = IF CodeAgent_init(config, InitFiles, InitDirs) = "ok"
            THEN "loop" ELSE "no_agent"
    /\ oracle_calls = 0
    /\ fs_access = {}
    /\ oob = 0

\* The state after a construction that succeeded.
Init ==
    /\ Constructed
    /\ pc = "loop"

SetWorld(w) ==
    /\ fs_files' = w.files
    /\ fs_dirs' = w.dirs
    /\ read_files' = w.read
    /\ edited_files' = w.edited
    /\ walked_directories' = w.walked
    /\ file_contents_cache' = w.cache
    /\ important_findings' = w.findings
    /\ requested_files' = w.req_files
    /\ requested_dirs' = w.req_dirs
    /\ fs_access' = w.accessed

\* A record that reports every action as a success.
EntryAlwaysSuccess(n, a, ok) == [iteration |-> n, success |-> TRUE]

\* The entry run() appends for an executed action: its iteration and success
\* fields (the action kind, the target and the thought_process texts of the
\* entry are those of `action` and are left out of the list).
Entry(n, a, ok) == [iteration |-> n, success |-> ok]

\* A while test that admits one turn too many.
InLoopInclusive == pc = "loop" /\ iterations <= max_iterations

\* The while test of run() lets a turn start.
InLoop == pc = "loop" /\ iterations < max_iterations

\* A loop that goes back to the while test when decide_next_action
\* returned None, and asks the oracle again.
BreakAndRetry ==
    /\ pc' = "loop"
    /\ UNCHANGED <<fs_files, fs_dirs, read_files, edited_files,
                   walked_directories, file_contents_cache, important_findings,
                   requested_files, requested_dirs, actions_taken, success,
                   result, fs_access, summary>>

\* A break that leaves the loop without having counted the turn in which
\* decide_next_action returned None.
BreakUncounted ==
    /\ pc' = "done"
    /\ summary' = Summary(iterations, actions_taken, World)
    /\ UNCHANGED <<fs_files, fs_dirs, read_files, edited_files,
                   walked_directories, file_contents_cache, important_findings,
                   requested_files, requested_dirs, actions_taken, success,
                   result, fs_access>>

\* `if action is None: break` in run(): the loop is left and the summary is
\* built and returned.
Break ==
    /\ pc' = "done"
    /\ summary' = Summary(iterations + 1, actions_taken, World)
    /\ UNCHANGED <<fs_files, fs_dirs, read_files, edited_files,
                   walked_directories, file_contents_cache, important_findings,
                   requested_files, requested_dirs, actions_taken, success,
                   result, fs_access>>

\* One turn of the while loop of run(): the oracle answers resp;
\* decide_next_action returns None and the loop breaks, run() returning its
\* summary, or it returns the action, which execute_action runs and run()
\* records.
Turn(resp, kept, io) ==
    /\ iterations' = iterations + 1
    /\ oracle_calls' = oracle_calls + 1
    /\ response' = resp
    /\ action' = decide_next_action(resp)
    /\ IF decide_next_action(resp) = None
       THEN Break
       ELSE /\ \E r \in {execute_action(variant, World,
                                        decide_next_action(resp), kept, io)} :
                 /\ SetWorld(r.w)
                 /\ success' = r.ok
                 /\ result' = r.contents
                 /\ actions_taken' =
                       Append(actions_taken,
                              Entry(iterations + 1, decide_next_action(resp), r.ok))
            /\ pc' = "executed"
            /\ UNCHANGED summary
    /\ UNCHANGED <<config, variant, max_iterations, oob>>

\* The jump back to the while test.  The locals action and success are dead
\* there (the next turn assigns them before any use): the model forgets them.
Continue ==
    /\ pc = "executed"
    /\ pc' = "loop"
    /\ response' = None
    /\ action' = None
    /\ success' = FALSE
    /\ result' = EmptyMap
    /\ fs_access' = {}
    /\ UNCHANGED <<config, variant, fs_files, fs_dirs, read_files, edited_files,
                   walked_directories, file_contents_cache, important_findings,
                   requested_files, requested_dirs, max_iterations, iterations,
                   actions_taken, summary, oracle_calls, oob>>

\* The responses with complete = true: whatever else they carry.
CompleteResponses(v) ==
    {[a EXCEPT !.complete = TRUE] :
        a \in {FileAction("add_file", PB, "X", fd) : fd \in FindingLists(v)}
              \cup {BareAction("explore", fd) : fd \in FindingLists(v)}}

EditActions(v) ==
    {FileAction("edit_file", p, c, fd) :
        p \in FilePaths \cup {PLong}, c \in EditContents, fd \in FindingLists(v)}

AddActions(v) ==
    {FileAction("add_file", p, c, fd) :
        p \in FilePaths, c \in Contents, fd \in FindingLists(v)}

RemoveActions(v) ==
    {FileAction("remove_file", p, "", fd) :
        p \in GuardPaths, fd \in FindingLists(v)}

\* Responses that name an action_type whose parameter object is missing.
BareActions(v) ==
    {BareAction(k, fd) : k \in Kinds, fd \in FindingLists(v)}
    \cup (IF v = "poml" THEN {BareAction("edit_file", TwoFindings)} ELSE {})

\* What _call_azure_openai may return: nothing, an action to take, or a
\* response with complete = true.
Responses(v) ==
    {None} \cup CompleteResponses(v) \cup ExploreActions(v) \cup EditActions(v)
        \cup AddActions(v) \cup RemoveActions(v) \cup BareActions(v)

\* The oracle is called and the loop body runs on its answer.
OracleResponds ==
    /\ InLoop
    /\ \E resp \in Responses(variant), io \in BOOLEAN :
          \E kept \in KeptChoices(variant, World, resp) :
             Turn(resp, kept, io)

\* The while condition fails: run() returns its summary.
BudgetExhausted ==
    /\ pc = "loop"
    /\ iterations >= max_iterations
    /\ pc' = "done"
    /\ summary' = Summary(iterations, actions_taken, World)
    /\ UNCHANGED <<config, variant, fs_files, fs_dirs, read_files, edited_files,
                   walked_directories, file_contents_cache, important_findings,
                   requested_files, requested_dirs, max_iterations, iterations,
                   actions_taken, response, action, success, result, oracle_calls,
                   fs_access, oob>>

\* The repository's files the outside world may change while the agent runs.
ExternalLocs == {LocA, LocB}

ExternalWrite ==
    /\ pc = "executed"
    /\ oob < MaxOob
    /\ \E l \in ExternalLocs, c \in EditContents :
        /\ Front(l) \in fs_dirs
        /\ ~(l \in DOMAIN fs_files /\ fs_files[l] = c)
        /\ fs_files' = (l :> c) @@ fs_files
        /\ oob' = oob + 1
        /\ UNCHANGED <<config, variant, fs_dirs, read_files, edited_files,
                       walked_directories, file_contents_cache,
                       important_findings, requested_files, requested_dirs,
                       max_iterations, iterations, actions_taken, response, action,
                       success, result, summary, pc, oracle_calls,
                       fs_access>>

ExternalDelete ==
    /\ pc = "executed"
    /\ oob < MaxOob
    /\ \E l \in ExternalLocs :
        /\ l \in DOMAIN fs_files
        /\ fs_files' = Without(fs_files, l)
        /\ oob' = oob + 1
        /\ UNCHANGED <<config, variant, fs_dirs, read_files, edited_files,
                       walked_directories, file_contents_cache,
                       important_findings, requested_files, requested_dirs,
                       max_iterations, iterations, actions_taken, response, action,
                       success, result, summary, pc, oracle_calls,
                       fs_access>>

\* The steps of run().
AgentNext ==
    \/ OracleResponds
    \/ Continue
    \/ BudgetExhausted

Next ==
    \/ AgentNext
    \/ ExternalWrite
    \/ ExternalDelete

Spec == Init /\ [][Next]_vars

\* run() is sequential code: while it has a step to take, it takes it.
FairSpec == Spec /\ WF_vars(AgentNext)

\* A turn of code_agent_poml.py whose prompt rendering fails: run() has
\* counted the turn, decide_next_action calls poml.poml outside any try
\* block, and neither decide_next_action nor run() catches: the exception
\* leaves run() before the oracle is called, and no summary is returned.
\* code_agent.py builds its prompt by string formatting, which cannot fail.
RenderRaises ==
    /\ InLoop
    /\ variant = "poml"
    /\ iterations' = iterations + 1
    /\ pc' = "raised"
    /\ UNCHANGED <<config, variant, fs_files, fs_dirs, read_files, edited_files,
                   walked_directories, file_contents_cache, important_findings,
                   requested_files, requested_dirs, max_iterations,
                   actions_taken, response, action, success, result, summary,
                   oracle_calls, fs_access, oob>>

NextWithFaults ==
    \/ Next
    \/ RenderRaises

\* The runs in which the prompt renderer may fail as well.
FaultSpec == Init /\ [][NextWithFaults]_vars

\* The runs from every call of the constructor, those that raised included.
ConstructSpec == Constructed /\ [][Next]_vars

(***************************************************************************)
(* Properties of the control loop                                          *)
(***************************************************************************)

\* C1: whatever the oracle answers, run(max_iterations) makes at most
\* max_iterations oracle calls and records at most max_iterations executed
\* actions, and it returns; when every oracle call returned an action (none
\* failed, none was complete), the summary's iterations is max_iterations.
C1_TerminatesWithinBudget ==
    /\ [](/\ oracle_calls <= max_iterations
          /\ Len(actions_taken) <= max_iterations
          /\ (pc = "done" /\ Len(summary.actions_taken) = oracle_calls
                => summary.iterations = max_iterations))
    /\ <>(pc = "done")

\* A run of MaxIter turns, each of which executed an action.
C1_Witness ==
    /\ pc = "done"
    /\ max_iterations = MaxIter
    /\ oracle_calls = MaxIter
    /\ Len(summary.actions_taken) = MaxIter
    /\ summary.iterations = MaxIter

\* C2: a turn whose oracle response has complete = true stops the loop at
\* that turn: nothing is executed (no filesystem access, filesystem and
\* memory unchanged), no record is appended, and the summary reports that
\* turn's number k as iterations with k - 1 recorded actions.
C2_CompleteStopsLoop ==
    [][(oracle_calls' = oracle_calls + 1 /\ response' # None /\ response'.complete)
         => /\ pc' = "done"
            /\ action' = None
            /\ fs_access' = {}
            /\ UNCHANGED <<fs_files, fs_dirs, read_files, edited_files,
                           walked_directories, file_contents_cache,
                           important_findings, requested_files, requested_dirs,
                           actions_taken>>
            /\ summary'.iterations = iterations'
            /\ summary'.actions_taken = actions_taken
            /\ Len(summary'.actions_taken) = iterations' - 1]_vars

\* The second turn's response is complete and carries an add_file payload,
\* after a first turn that executed an action.
C2_Witness ==
    /\ pc = "done"
    /\ response # None
    /\ response.complete
    /\ response.action_type = "add_file"
    /\ response.payload
    /\ summary.iterations = 2
    /\ Len(summary.actions_taken) = 1

(***************************************************************************)
(* Properties of the path guard and the filesystem operations              *)
(***************************************************************************)

\* The location l is root or lies below it.
Under(l, root) == Len(l) >= Len(root) /\ SubSeq(l, 1, Len(root)) = root

\* C3: no step creates, overwrites or deletes a file whose canonical
\* location is outside the repository root, whatever path strings the
\* actions carry.
C3_Sandbox ==
    [][\A l \in DOMAIN fs_files \cup DOMAIN fs_files' :
          ~Under(l, repo_path)
             => /\ l \in DOMAIN fs_files
                /\ l \in DOMAIN fs_files'
                /\ fs_files'[l] = fs_files[l]]_vars

\* C4: every path string a turn hands to a filesystem call (existence test,
\* walk, read, write, delete) was accepted by the path guard; a rejected
\* path is never walked, read, written or deleted.
C4_GuardBeforeAccess == \A p \in fs_access : validate_path_in_repo(p)

\* C5: every path in edited_files and every key of file_contents_cache is
\* a path the path guard accepts (the guard's verdict on a path string does
\* not change during a run, so this is its verdict when the path was
\* added), whichever operation added it.
C5_MemoryPathsGuarded ==
    \A p \in edited_files \cup DOMAIN file_contents_cache :
        validate_path_in_repo(p)

\* The action a is ReadFiles([p]): an explore of code_agent.py that names no
\* directory and the one file p, and may read at least one file.
ReadsOnly(a, p) ==
    /\ variant = "eager"
    /\ a.action_type = "explore"
    /\ a.payload
    /\ a.directories = <<>>
    /\ a.files = <<p>>
    /\ a.max_files >= 1

\* C6 (as stated): ReadFiles([p]) on a path p that is a key of
\* file_contents_cache, as it is after a successful Add(p, X), returns
\* {p: cached value} without touching the disk.
C6_CacheKeyServedFromCache ==
    [][\A p \in DOMAIN file_contents_cache :
          (oracle_calls' = oracle_calls + 1 /\ ReadsOnly(action', p))
             => /\ result' = (p :> file_contents_cache[p])
                /\ p \notin fs_access']_vars

\* C6 (amended): ReadFiles([p]) serves p from the cache, without touching
\* the disk, when p is both in read_files and a key of file_contents_cache.
\* For a cache key that is not in read_files, as after a successful
\* Add(p, X) or Edit(p, X), it goes to the disk: it returns what the file
\* holds now, or nothing when the file is gone or cannot be opened.
C6_ReadAndCachedServedFromCache ==
    [][\A p \in DOMAIN file_contents_cache :
          (oracle_calls' = oracle_calls + 1 /\ ReadsOnly(action', p))
             => IF p \in read_files
                THEN /\ result' = (p :> file_contents_cache[p])
                     /\ fs_access' = {}
                ELSE /\ p \in fs_access'
                     /\ LET l == LocOf(fs_dirs, JoinRepo(p))
                        IN  IF l \in DOMAIN fs_files
                            THEN result' \in {EmptyMap, (p :> fs_files[l])}
                            ELSE result' = EmptyMap]_vars

\* Add("d/b", X) succeeded, the file was deleted from outside, and the
\* ReadFiles(["d/b"]) that followed returned nothing although the cache
\* holds X for it.
C6_Witness ==
    /\ pc = "executed"
    /\ ReadsOnly(action, PB)
    /\ oob = 1
    /\ PB \in DOMAIN file_contents_cache
    /\ file_contents_cache[PB] = "X"
    /\ PB \notin read_files
    /\ PB \notin edited_files
    /\ LocB \notin DOMAIN fs_files
    /\ PB \in fs_access
    /\ result = EmptyMap

\* C7: after a successful Remove(p), p is in none of read_files,
\* edited_files and file_contents_cache, and a ReadFiles([p]) made right
\* then returns an empty mapping.
C7_RemovePurges ==
    [][(/\ oracle_calls' = oracle_calls + 1
        /\ action'.action_type = "remove_file"
        /\ success')
         => LET p == action'.file_path
            IN  /\ p \notin read_files'
                /\ p \notin edited_files'
                /\ p \notin DOMAIN file_contents_cache'
                /\ \A io \in BOOLEAN :
                      ReadFiles(World', {p}, io).contents = EmptyMap]_vars

\* Remove("a") succeeded after a turn that had read "a" into the cache:
\* the one file read is gone from the memory.
C7_Witness ==
    /\ pc = "executed"
    /\ variant = "eager"
    /\ action.action_type = "remove_file"
    /\ action.file_path = PA
    /\ success
    /\ important_findings = << <<0, 0, 1>> >>
    /\ read_files = {}
    /\ file_contents_cache = EmptyMap
    /\ LocA \notin DOMAIN fs_files

\* C8: as long as nothing outside the agent changed the filesystem, every
\* path string in read_files, edited_files and file_contents_cache names a
\* file that exists, however the paths are spelled.
C8_MemoryNamesExistingFiles ==
    oob = 0 =>
        \A p \in read_files \cup edited_files \cup DOMAIN file_contents_cache :
            LocOf(fs_dirs, JoinRepo(p)) \in DOMAIN fs_files

\* C9: Edit(p, c) on a path p at which nothing exists returns failure and
\* leaves the filesystem, file_contents_cache, edited_files and read_files
\* as they were: no file is created.
C9_EditMissingFails ==
    [][(/\ oracle_calls' = oracle_calls + 1
        /\ action'.action_type = "edit_file"
        /\ action'.payload
        /\ ~ExistsAt(fs_files, fs_dirs,
                     LocOf(fs_dirs, JoinRepo(action'.file_path))))
         => /\ ~success'
            /\ UNCHANGED <<fs_files, fs_dirs, file_contents_cache,
                           edited_files, read_files>>]_vars

\* Edit("a", Y) failed on the second turn, after the first removed "a": the
\* guard accepts the path, its directory exists, and no file was created.
C9_Witness ==
    /\ pc = "executed"
    /\ action.action_type = "edit_file"
    /\ action.file_path = PA
    /\ ~success
    /\ oob = 0
    /\ Len(actions_taken) = 2
    /\ actions_taken[1].success
    /\ LocA \notin DOMAIN fs_files
    /\ PA \notin DOMAIN file_contents_cache
    /\ PA \notin edited_files

\* C10: after a successful Add(p, X) the file and file_contents_cache[p]
\* hold X, and an Add(p, Y) made right then fails, whatever Y is, and
\* leaves the file and the cache holding X.
C10_SecondAddFails ==
    [][(/\ oracle_calls' = oracle_calls + 1
        /\ action'.action_type = "add_file"
        /\ success')
         => LET p == action'.file_path
                X == action'.content
                l == LocOf(fs_dirs', JoinRepo(p))
            IN  /\ l \in DOMAIN fs_files'
                /\ fs_files'[l] = X
                /\ p \in DOMAIN file_contents_cache'
                /\ file_contents_cache'[p] = X
                /\ \A Y \in Contents, io \in BOOLEAN :
                      LET r == add_file(World', p, Y, io)
                      IN  /\ ~r.ok
                          /\ r.w.files = fs_files'
                          /\ r.w.dirs = fs_dirs'
                          /\ r.w.cache = file_contents_cache']_vars

\* The second turn's Add("d/b", Y) failed right after the first turn's
\* Add("d/b", X) succeeded: file and cache hold X.
C10_Witness ==
    /\ pc = "executed"
    /\ action.action_type = "add_file"
    /\ action.file_path = PB
    /\ action.content = "Y"
    /\ ~success
    /\ oob = 0
    /\ Len(actions_taken) = 2
    /\ actions_taken[1].success
    /\ LocB \in DOMAIN fs_files
    /\ fs_files[LocB] = "X"
    /\ PB \in DOMAIN file_contents_cache
    /\ file_contents_cache[PB] = "X"

(***************************************************************************)
(* Properties of Walk and Explore                                          *)
(***************************************************************************)

\* The directory strings an explore action may name.
DirInputs == {DD, DDot, DUpR, DSib, DOut, DVenv}

\* The canonical location of a path string or of a walked_directories entry.
Canonical(p) == Resolve(JoinRepo(p))

\* C11: walked_directories holds one entry per directory walked, and a
\* Walk(d) of a directory that was walked before, under this or an
\* equivalent spelling, returns the empty list.
C11_WalkIdempotent ==
    variant = "eager" =>
        /\ \A e1, e2 \in walked_directories :
              Canonical(e1) = Canonical(e2) => e1 = e2
        /\ \A d \in DirInputs :
              (\E e \in walked_directories : Canonical(e) = Canonical(d))
                 => walk_directory(World, d).files = {}

\* The walked_directories entry a traversal of d leaves: str(target_path)
\* in code_agent.py, the string as given in code_agent_poml.py.
WalkedEntry(d) == IF variant = "eager" THEN Abs(JoinRepo(d)) ELSE d

WalkCompletes(d) ==
    LET l == LocOf(fs_dirs, JoinRepo(d))
    IN  IF variant = "eager"
        THEN d # NoPath /\ ExistsAt(fs_files, fs_dirs, l)
        ELSE validate_path_in_repo(d) /\ ExistsAt(fs_files, fs_dirs, l)
             /\ IsDirAt(fs_dirs, l)

ExploresMoreThanMax(a) ==
    /\ variant = "eager"
    /\ a.action_type = "explore"
    /\ a.payload
    /\ Cardinality(FilesToRead(World, a.directories, a.files)) > a.max_files

\* files_read as the explore reported it in its finding.
ReportedFilesRead(findings) == findings[Len(findings)][3]

\* C13 (as stated): such an explore returns the content of exactly max_files
\* files and reports files_read = max_files.
C13_ExactlyMaxFiles ==
    [][(oracle_calls' = oracle_calls + 1 /\ ExploresMoreThanMax(action'))
         => /\ Cardinality(DOMAIN result') = action'.max_files
            /\ ReportedFilesRead(important_findings') = action'.max_files]_vars

\* C13 (amended): such an explore returns the content of at most as many
\* files as the cut files_to_read[:max_files] keeps (max_files of them when
\* max_files is not negative), each of them a candidate that is cached as
\* read or exists as a
\* file, and reports as files_read the number of contents returned.  A
\* candidate kept by the truncation that does not exist or cannot be opened
\* counts against max_files and contributes nothing.
C13_AtMostMaxFiles ==
    [][(oracle_calls' = oracle_calls + 1 /\ ExploresMoreThanMax(action'))
         => /\ Cardinality(DOMAIN result')
                  <= SliceLen(Cardinality(FilesToRead(World, action'.directories,
                                                      action'.files)),
                              action'.max_files)
            /\ action'.max_files >= 0
                  => Cardinality(DOMAIN result') <= action'.max_files
            /\ \A p \in DOMAIN result' :
                  /\ p \in FilesToRead(World, action'.directories, action'.files)
                  /\ \/ Cached(World, p)
                     \/ LocOf(fs_dirs, JoinRepo(p)) \in DOMAIN fs_files
            /\ Len(important_findings') = Len(important_findings) + 1
            /\ ReportedFilesRead(important_findings')
                  = Cardinality(DOMAIN result')]_vars

\* explore(directories=["."], files=["d/b"], max_files=1): the walk found
\* "a", the truncation kept "d/b", which does not exist, and nothing was
\* read.
C13_Witness ==
    /\ pc = "executed"
    /\ variant = "eager"
    /\ action.action_type = "explore"
    /\ action.directories = <<DDot>>
    /\ action.files = <<PB>>
    /\ action.max_files = 1
    /\ fs_access = {DDot, PB}
    /\ LocB \notin DOMAIN fs_files
    /\ result = EmptyMap
    /\ ReportedFilesRead(important_findings) = 0

(***************************************************************************)
(* Properties of the run record and of the oracle adapter                  *)
(***************************************************************************)

\* C14: a turn whose oracle response is an action that is not complete
\* executes that action once (the filesystem and the memory change as one
\* execute_action does) and appends one record with the turn's number and
\* the executor's result; after a failed action the loop goes on to the next
\* turn while the budget allows.
C14_OneRecordPerAction ==
    /\ [][(/\ oracle_calls' = oracle_calls + 1
           /\ response' # None
           /\ ~response'.complete)
            => /\ action' = response'
               /\ pc' = "executed"
               /\ \E io \in BOOLEAN :
                     \E kept \in KeptChoices(variant, World, response') :
                        LET r == execute_action(variant, World, response', kept, io)
                        IN  r.w = World' /\ r.ok = success'
               /\ actions_taken' =
                     Append(actions_taken,
                            [iteration |-> iterations', success |-> success'])
               /\ iterations' = iterations + 1]_vars
    /\ \A n \in 0 .. MaxIter :
          (pc = "executed" /\ ~success /\ iterations = n /\ n < max_iterations)
             ~> (oracle_calls = n + 1)

\* The first turn's action failed and the second turn ran and was recorded.
C14_Witness ==
    /\ pc = "executed"
    /\ Len(actions_taken) = 2
    /\ actions_taken[1] = [iteration |-> 1, success |-> FALSE]
    /\ actions_taken[2] = [iteration |-> 2, success |-> TRUE]
    /\ oracle_calls = 2

\* C15: a turn that stops the loop ends the run in a state that depends on
\* the state before the turn only, not on whether the oracle call failed or
\* answered complete = true (with whatever payload and findings): the
\* summary is built from the counters and memory as they were, and
\* filesystem, memory and run record are unchanged.  Two runs that agree up
\* to that turn therefore end with the same summary, memory and filesystem.
C15_FailureLikeCompletion ==
    [][(/\ oracle_calls' = oracle_calls + 1
        /\ (response' = None \/ response'.complete))
         => /\ pc' = "done"
            /\ summary' = Summary(iterations + 1, actions_taken, World)
            /\ UNCHANGED <<fs_files, fs_dirs, read_files, edited_files,
                           walked_directories, file_contents_cache,
                           important_findings, requested_files, requested_dirs,
                           actions_taken>>]_vars

\* A run of code_agent_poml.py stopped at its second turn by a complete
\* response carrying an add_file payload and a finding: the summary is the
\* one a failed call would have produced at that turn, without the finding.
C15_Witness ==
    /\ pc = "done"
    /\ variant = "poml"
    /\ response # None
    /\ response.complete
    /\ response.payload
    /\ response.findings = <<"note">>
    /\ Len(actions_taken) = 1
    /\ summary = Summary(2, actions_taken, World)
    /\ "note" \notin SeqToSet(summary.important_findings)
    /\ LocB \notin DOMAIN fs_files

\* C16: an oracle call that fails or returns nothing ends the run: run()
\* returns its summary at that turn, and after it there is no further
\* oracle call, no further action execution and no further record.
C16_NoRetry ==
    [][/\ (oracle_calls' = oracle_calls + 1 /\ response' = None)
          => /\ pc' = "done"
             /\ summary'.returned
             /\ summary'.iterations = oracle_calls'
             /\ summary'.actions_taken = actions_taken
       /\ pc = "done"
          => UNCHANGED <<oracle_calls, iterations, actions_taken, summary,
                         fs_files, fs_dirs, read_files, edited_files,
                         walked_directories, file_contents_cache,
                         important_findings, fs_access>>]_vars

\* The first oracle call failed with budget left: one call was made,
\* nothing was executed and the summary was returned.
C16_Witness ==
    /\ pc = "done"
    /\ response = None
    /\ max_iterations = MaxIter
    /\ oracle_calls = 1
    /\ actions_taken = <<>>
    /\ summary.returned
    /\ summary.iterations = 1

(***************************************************************************)
(* Properties of error handling                                            *)
(***************************************************************************)

\* C17: Edit, Add and Remove called with a path the path guard rejects
\* return failure and change nothing, in the filesystem or in any field of
\* the memory, and touch no file; a turn that carries such an action is
\* recorded as failed and leaves filesystem, read_files, edited_files,
\* walked_directories and file_contents_cache as they were (the executor of
\* code_agent_poml.py appends the findings the response carries before it
\* calls the operation; the operation adds none).
C17_RejectedPathNoEffect ==
    /\ [](\A p \in FilePaths :
            ~validate_path_in_repo(p)
               => \A c \in Contents, io \in BOOLEAN :
                     /\ edit_file(World, p, c, io) = Ret(FALSE, World)
                     /\ add_file(World, p, c, io) = Ret(FALSE, World)
                     /\ remove_file(World, p, io) = Ret(FALSE, World))
    /\ [][(/\ oracle_calls' = oracle_calls + 1
           /\ action'.action_type \in {"edit_file", "add_file", "remove_file"}
           /\ action'.payload
           /\ ~validate_path_in_repo(action'.file_path))
            => /\ ~success'
               /\ fs_access' = {}
               /\ UNCHANGED <<fs_files, fs_dirs, read_files, edited_files,
                              walked_directories, file_contents_cache>>
               /\ important_findings' = important_findings \o action'.findings]_vars

\* Remove("../x/o") was refused: the file outside the repository is still
\* there and no filesystem call was made on the path.
C17_Witness ==
    /\ pc = "executed"
    /\ action.action_type = "remove_file"
    /\ action.file_path = PUp
    /\ ~success
    /\ fs_access = {}
    /\ LocO \in DOMAIN fs_files
    /\ actions_taken[Len(actions_taken)].success = FALSE


(***************************************************************************)
(* Properties of error handling                                            *)
(***************************************************************************)

\* C18: run() never lets an exception escape: every turn it starts ends
\* either with the loop stopped and the summary returned, or with the
\* action's result (success true or false) recorded in the run record.
C18_Containment ==
    /\ [](pc # "raised")
    /\ [][iterations' = iterations + 1
            => \/ pc' = "done" /\ summary'.returned
               \/ /\ pc' = "executed"
                  /\ Len(actions_taken') = Len(actions_taken) + 1
                  /\ actions_taken'[Len(actions_taken')].success = success']_vars

\* C18, with a renderer that does not fail: what fails in the oracle call,
\* the dispatch or the filesystem is contained.
C18_ContainedBelowRenderer ==
    [][iterations' = iterations + 1
         => \/ pc' = "done" /\ summary'.returned
            \/ /\ pc' = "executed"
               /\ Len(actions_taken') = Len(actions_taken) + 1
               /\ actions_taken'[Len(actions_taken')].success = success']_vars


\* C19: when the constructor is given no endpoint, no credential or a
\* repository path that does not exist, it raises: there is no agent, and
\* nothing ever happens after it (no oracle call, no iteration, no record,
\* no filesystem call, the filesystem as it was, no summary).
C19_ConstructionRaises ==
    /\ []((\/ ~config.endpoint
           \/ ~config.credentials
           \/ ~ExistsAt(InitFiles, InitDirs,
                        LocOf(InitDirs, Resolve(config.repo_path))))
             => /\ pc = "no_agent"
                /\ oracle_calls = 0
                /\ iterations = 0
                /\ actions_taken = <<>>
                /\ fs_access = {}
                /\ fs_files = InitFiles
                /\ fs_dirs = InitDirs
                /\ ~summary.returned)
    /\ [][pc # "no_agent"]_vars

\* CodeAgent("/w/gone", ...) with endpoint and credential: no agent.
C19_Witness ==
    /\ pc = "no_agent"
    /\ config = [endpoint |-> TRUE, credentials |-> TRUE,
                 repo_path |-> <<"w", "gone">>]


(***************************************************************************)
(* Properties of the path guard as a function                              *)
(***************************************************************************)

\* The canonical absolute path of the repository root joined with p,
\* written out character by character for each path string of the model.
CanonicalString(p) ==
    CASE p = PA    -> <<"/", "w", "/", "r", "/", "a">>
      [] p = PDotA -> <<"/", "w", "/", "r", "/", "a">>
      [] p = PB    -> <<"/", "w", "/", "r", "/", "d", "/", "b">>
      [] p = PSib  -> <<"/", "w", "/", "r", "2", "/", "s">>
      [] p = PUp   -> <<"/", "w", "/", "x", "/", "o">>
      [] p = PAbs  -> <<"/", "w", "/", "x", "/", "o">>
      [] p = PLn   -> <<"/", "w", "/", "x", "/", "o">>
      [] p = PEtc  -> <<"/", "etc", "/", "passwd">>

\* The canonical repository root as a string: /w/r.
RootString == <<"/", "w", "/", "r">>

Missing(w, p) ==
    /\ ~(p \in w.read /\ p \in DOMAIN w.cache)
    /\ LocOf(w.dirs, JoinRepo(p)) \notin DOMAIN w.files

\* Lists of paths to read: d/b (absent at first) with a, the directory d
\* with a, and three paths that exist from the start.
ReadSets == {{PB, PA}, {DD, PA}, {PB}, {PA, PDotA, PSib}}

ReadByStep ==
    DOMAIN result'
    \cup (read_files' \ read_files)
    \cup {p \in DOMAIN file_contents_cache' :
            ~(/\ p \in DOMAIN file_contents_cache
              /\ file_contents_cache[p] = file_contents_cache'[p])}

\* An explore step of code_agent.py.
EagerExploreStep ==
    /\ oracle_calls' = oracle_calls + 1
    /\ variant = "eager"
    /\ action'.action_type = "explore"
    /\ action'.payload

\* C22: an explore reads at most max_files files (none when max_files is
\* not positive), whatever its arguments, and only candidates (explicit
\* files or files its walks discovered).
C22_ReadsAtMostMaxFiles ==
    [][EagerExploreStep
         => /\ Cardinality(ReadByStep)
                  <= (IF action'.max_files > 0 THEN action'.max_files ELSE 0)
            /\ ReadByStep \subseteq
                  FilesToRead(World, action'.directories, action'.files)]_vars

\* C22, for a max_files that is not negative: the cut is made before the
\* reading and the bound holds.
C22_CapHoldsWhenNotNegative ==
    [][(EagerExploreStep /\ action'.max_files >= 0)
         => /\ Cardinality(ReadByStep) <= action'.max_files
            /\ ReadByStep \subseteq
                  FilesToRead(World, action'.directories, action'.files)]_vars


\* C23: every explore of code_agent.py appends exactly one finding, which
\* gives the directories explored, the files discovered and the files read.
C23_OneFindingPerExplore ==
    [][EagerExploreStep
         => /\ Len(important_findings') = Len(important_findings) + 1
            /\ SubSeq(important_findings', 1, Len(important_findings))
                  = important_findings
            /\ ReportedFilesRead(important_findings')
                  = Cardinality(DOMAIN result')]_vars

\* C23, for an explore with at least one candidate (an explicit file or a
\* discovered one): one finding is appended; with no candidate, none is.
C23_OneFindingWhenCandidates ==
    [][EagerExploreStep
         => IF FilesToRead(World, action'.directories, action'.files) # {}
            THEN /\ Len(important_findings') = Len(important_findings) + 1
                 /\ SubSeq(important_findings', 1, Len(important_findings))
                       = important_findings
                 /\ ReportedFilesRead(important_findings')
                       = Cardinality(DOMAIN result')
            ELSE important_findings' = important_findings]_vars


(***************************************************************************)
(* Properties of the explore of code_agent_poml.py                         *)
(***************************************************************************)

\* The path d passes the path guard and names an existing directory.
AcceptedDir(d) ==
    /\ validate_path_in_repo(d)
    /\ LocOf(fs_dirs, JoinRepo(d)) \in fs_dirs

\* The path f passes the path guard and names an existing regular file.
AcceptedFile(f) ==
    /\ validate_path_in_repo(f)
    /\ LocOf(fs_dirs, JoinRepo(f)) \in DOMAIN fs_files

\* C24: an explore of code_agent_poml.py returns true; the directories it
\* requests and adds to walked_directories are exactly those of its list
\* that pass the guard and exist as directories, the files it requests and
\* adds to read_files exactly those that pass the guard and exist as
\* regular files; the other targets are skipped, and nothing else changes.
C24_DeferredExplore ==
    [][(/\ oracle_calls' = oracle_calls + 1
        /\ variant = "poml"
        /\ action'.action_type = "explore"
        /\ action'.payload)
         => /\ success'
            /\ pc' = "executed"
            /\ requested_dirs'
                  = SelectSeq(action'.directories, LAMBDA d : AcceptedDir(d))
            /\ walked_directories'
                  = walked_directories
                      \cup {d \in SeqToSet(action'.directories) : AcceptedDir(d)}
            /\ requested_files'
                  = SelectSeq(action'.files, LAMBDA f : AcceptedFile(f))
            /\ read_files'
                  = read_files \cup {f \in SeqToSet(action'.files) : AcceptedFile(f)}
            /\ UNCHANGED <<fs_files, fs_dirs, edited_files, file_contents_cache>>
            /\ result' = EmptyMap]_vars

\* C24, when no exists() raises: an explore of code_agent_poml.py none of
\* whose targets makes exists() raise returns true and requests exactly the
\* accepted targets.
C24_DeferredExploreWithoutRaise ==
    [][(/\ oracle_calls' = oracle_calls + 1
        /\ variant = "poml"
        /\ action'.action_type = "explore"
        /\ action'.payload
        /\ FirstRaising(action'.directories) = 0
        /\ FirstRaising(action'.files) = 0)
         => /\ success'
            /\ requested_dirs'
                  = SelectSeq(action'.directories, LAMBDA d : AcceptedDir(d))
            /\ walked_directories'
                  = walked_directories
                      \cup {d \in SeqToSet(action'.directories) : AcceptedDir(d)}
            /\ requested_files'
                  = SelectSeq(action'.files, LAMBDA f : AcceptedFile(f))
            /\ read_files'
                  = read_files \cup {f \in SeqToSet(action'.files) : AcceptedFile(f)}
            /\ UNCHANGED <<fs_files, fs_dirs, edited_files, file_contents_cache>>
            /\ result' = EmptyMap]_vars

\* explore(files=["d/b", "a"]) in code_agent_poml.py: d/b does not exist
\* and is skipped, a is requested and marked read.
C24_Witness ==
    /\ pc = "executed"
    /\ variant = "poml"
    /\ action.action_type = "explore"
    /\ action.files = <<PB, PA>>
    /\ LocB \notin DOMAIN fs_files
    /\ requested_files = <<PA>>
    /\ read_files = {PA}
    /\ success


(***************************************************************************)
(* Properties of the dispatch                                              *)
(***************************************************************************)

\* C25: an action whose parameter object is missing, and an action whose
\* dispatch raises, are executed with the result false: no exception leaves
\* execute_action (the turn is recorded and the loop goes on), and the
\* filesystem, read_files, edited_files, walked_directories and the cache
\* are unchanged; without the parameter object no filesystem call is made.
C25_BadDispatchFails ==
    [][(/\ oracle_calls' = oracle_calls + 1
        /\ action' # None
        /\ (~action'.payload \/ DispatchRaises(action')))
         => /\ ~success'
            /\ pc' = "executed"
            /\ actions_taken'
                  = Append(actions_taken,
                           [iteration |-> iterations', success |-> FALSE])
            /\ ~action'.payload => fs_access' = {}
            /\ UNCHANGED <<fs_files, fs_dirs, read_files, edited_files,
                           walked_directories, file_contents_cache>>]_vars

\* An edit_file without its parameter object failed in the first turn, and
\* an edit_file whose exists() raises failed in the second.
C25_Witness ==
    /\ pc = "executed"
    /\ Len(actions_taken) = 2
    /\ ~actions_taken[1].success
    /\ ~actions_taken[2].success
    /\ action.action_type = "edit_file"
    /\ action.file_path = PLong
    /\ fs_access = {PLong}
    /\ fs_files = InitFiles
    /\ edited_files = {}


(***************************************************************************)
(* Properties of the summary and of the memory                             *)
(***************************************************************************)

C27_MemoryAppendOnly ==
    [][/\ Len(important_findings') >= Len(important_findings)
       /\ SubSeq(important_findings', 1, Len(important_findings))
             = important_findings
       /\ walked_directories \subseteq walked_directories']_vars

\* Two turns of code_agent_poml.py that each carried a finding, the first
\* an explore of ".": both findings are there, and so is the directory.
C27_Witness ==
    /\ pc = "executed"
    /\ variant = "poml"
    /\ Len(actions_taken) = 2
    /\ important_findings = <<"note", "note">>
    /\ walked_directories = {DDot}
    /\ action.action_type = "remove_file"
    /\ success


(***************************************************************************)
(* Properties of single operations                                         *)
(***************************************************************************)

\* C28: walk_directory(d) on an existing directory leaves d's entry in
\* walked_directories, also when it finds no file; on a path at which
\* nothing exists it returns no file and leaves walked_directories as it
\* was, so that a walk_directory("d") made after add_file("d/b") created
\* the directory finds d/b and records d; the explore steps of
\* code_agent.py that name one directory behave so.
C28_WalkRecordsExisting ==
    /\ [](\A d \in DirInputs :
            LET l == LocOf(fs_dirs, JoinRepo(d))
                r == walk_directory(World, d)
            IN  /\ IsDirAt(fs_dirs, l) => Abs(JoinRepo(d)) \in r.w.walked
                /\ ~ExistsAt(fs_files, fs_dirs, l)
                      => /\ r.files = {}
                         /\ r.w.walked = walked_directories
                         /\ d = DD =>
                               LET added == add_file(r.w, PB, "X", TRUE)
                                   again == walk_directory(added.w, DD)
                               IN  /\ added.ok
                                   /\ again.files = {PB}
                                   /\ Abs(JoinRepo(DD)) \in again.w.walked)
    /\ [][(/\ EagerExploreStep
           /\ Len(action'.directories) = 1
           /\ action'.directories[1] \in DirInputs)
            => LET d == action'.directories[1]
                   l == LocOf(fs_dirs, JoinRepo(d))
               IN  /\ IsDirAt(fs_dirs, l)
                         => Abs(JoinRepo(d)) \in walked_directories'
                   /\ ~ExistsAt(fs_files, fs_dirs, l)
                         => /\ walked_directories' = walked_directories
                            /\ DOMAIN result' \subseteq SeqToSet(action'.files)]_vars

\* remove_file("a") emptied the repository and explore(directories=["."])
\* then found no file: the root is recorded as walked.
C28_Witness ==
    /\ pc = "executed"
    /\ variant = "eager"
    /\ Len(actions_taken) = 2
    /\ action.action_type = "explore"
    /\ action.directories = <<DDot>>
    /\ action.files = <<>>
    /\ LocA \notin DOMAIN fs_files
    /\ LocB \notin DOMAIN fs_files
    /\ result = EmptyMap
    /\ important_findings = <<>>
    /\ walked_directories = {Abs(repo_path)}


\* C29: an edit_file(p, c) on an existing file that the guard accepts
\* succeeds when the operating system allows the write; after a successful
\* edit_file(p, c) the file's content is c, p is in edited_files and the
\* cache holds c for p, no other file has changed, and read_files and
\* walked_directories are as before.
C29_EditWritesThrough ==
    /\ [](\A p \in FilePaths :
            LET l == LocOf(fs_dirs, JoinRepo(p))
            IN  (validate_path_in_repo(p) /\ l \in DOMAIN fs_files)
                   => edit_file(World, p, "Y", TRUE).ok)
    /\ [][(/\ oracle_calls' = oracle_calls + 1
           /\ action'.action_type = "edit_file"
           /\ success')
            => LET p == action'.file_path
                   l == LocOf(fs_dirs, JoinRepo(p))
               IN  /\ l \in DOMAIN fs_files
                   /\ fs_files' = [fs_files EXCEPT ![l] = action'.content]
                   /\ p \in edited_files'
                   /\ p \in DOMAIN file_contents_cache'
                   /\ file_contents_cache'[p] = action'.content
                   /\ UNCHANGED <<read_files, walked_directories, fs_dirs>>]_vars

\* explore(files=["a"]) read a with content X and edit_file("a", Y)
\* rewrote it: file and cache hold Y, and a is still marked read.
C29_Witness ==
    /\ pc = "executed"
    /\ variant = "eager"
    /\ action.action_type = "edit_file"
    /\ action.file_path = PA
    /\ success
    /\ LocA \in DOMAIN fs_files
    /\ fs_files[LocA] = "Y"
    /\ file_contents_cache = (PA :> "Y")
    /\ edited_files = {PA}
    /\ read_files = {PA}

\* C30: an add_file(p, c) on a path the guard accepts and at which nothing
\* exists succeeds when the operating system allows it, also when the
\* parent directory is missing; after a successful add_file(p, c) the
\* file exists with content c, its parent directories exist, the cache
\* holds c for p, no other file has changed, and read_files, edited_files
\* and walked_directories are as before.
C30_AddCreatesParents ==
    /\ [](\A p \in FilePaths :
            LET l == LocOf(fs_dirs, JoinRepo(p))
            IN  (/\ validate_path_in_repo(p)
                 /\ ~ExistsAt(fs_files, fs_dirs, l))
                   => add_file(World, p, "X", TRUE).ok)
    /\ [][(/\ oracle_calls' = oracle_calls + 1
           /\ action'.action_type = "add_file"
           /\ success')
            => LET p == action'.file_path
                   l == LocOf(fs_dirs', JoinRepo(p))
               IN  /\ ~ExistsAt(fs_files, fs_dirs, LocOf(fs_dirs, JoinRepo(p)))
                   /\ l # NoLoc
                   /\ Front(l) \in fs_dirs'
                   /\ fs_dirs \subseteq fs_dirs'
                   /\ l \notin DOMAIN fs_files
                   /\ fs_files' = (l :> action'.content) @@ fs_files
                   /\ p \in DOMAIN file_contents_cache'
                   /\ file_contents_cache'[p] = action'.content
                   /\ UNCHANGED <<read_files, edited_files,
                                  walked_directories>>]_vars

\* add_file("d/b", Y) in a repository without the directory d: d and d/b
\* exist, the cache holds Y for d/b, and nothing is marked read or edited.
C30_Witness ==
    /\ pc = "executed"
    /\ Len(actions_taken) = 1
    /\ action.action_type = "add_file"
    /\ action.file_path = PB
    /\ success
    /\ <<"w", "r", "d">> \in fs_dirs
    /\ LocB \in DOMAIN fs_files
    /\ fs_files[LocB] = "Y"
    /\ file_contents_cache = (PB :> "Y")
    /\ read_files = {}
    /\ edited_files = {}


(***************************************************************************)
(* C31..C38: walk results, truncation order, memory invariants, the run    *)
(* record, and the request lists and findings of code_agent_poml.py.       *)
(***************************************************************************)

\* A relative path none of whose segments is hidden or names an excluded
\* tooling directory.
C31_Clean(p) ==
    /\ ~p.abs
    /\ \A i \in DOMAIN p.segs :
          ~Hidden(p.segs[i]) /\ p.segs[i] \notin IgnoredDirs

\* C31: every path Walk(d) returns for a requested directory d is relative
\* to the repository root, has no segment starting with "." and no segment
\* naming an excluded tooling directory.
C31_WalkPathsClean ==
    [][EagerExploreStep
         => \A d \in SeqToSet(action'.directories) :
               \A p \in walk_directory(World, d).files : C31_Clean(p)]_vars

\* C31, restricted to the excluded tooling directories: no returned path has
\* a segment naming one.
C31_WalkPathsSkipTooling ==
    [][EagerExploreStep
         => \A d \in SeqToSet(action'.directories) :
               \A p \in walk_directory(World, d).files :
                  \A i \in DOMAIN p.segs : p.segs[i] \notin IgnoredDirs]_vars

\* C31, below the requested directory: the part of a returned path that
\* follows the directory as requested has no hidden segment and no excluded
\* one.
C31_WalkFiltersBelowTarget ==
    [][EagerExploreStep
         => \A d \in SeqToSet(action'.directories) :
               \A p \in walk_directory(World, d).files :
                  \A i \in DOMAIN p.segs :
                     i > Len(DropDots(d.segs))
                        => ~Hidden(p.segs[i]) /\ p.segs[i] \notin IgnoredDirs]_vars


\* The sets of files an explore action may read from the memory and the
\* filesystem w, one for each outcome of the truncation, with the outcome io
\* of opening the files held fixed.
C32_ReadSets(w, a, io) ==
    {DOMAIN explore_repository(BeforeDispatch("eager", w, a), a.directories,
                               a.files, a.max_files, kept, io).file_contents :
        kept \in KeptChoices("eager", w, a)}

\* C32: an explore reads a set of files that its arguments, the memory and
\* the filesystem determine: from the state an explore step starts in, the
\* same action cannot read two different sets of files.
C32_TruncationDeterministic ==
    [][EagerExploreStep
         => \A io \in BOOLEAN : Cardinality(C32_ReadSets(World, action', io)) = 1]_vars

\* C32, when the cap does not cut: an explore whose candidates all fit under
\* max_files reads a determined set of files.
C32_DeterministicWithoutCut ==
    [][(/\ EagerExploreStep
        /\ action'.max_files >= Cardinality(FilesToRead(World, action'.directories,
                                                        action'.files)))
         => \A io \in BOOLEAN : Cardinality(C32_ReadSets(World, action', io)) = 1]_vars


\* C33: in code_agent.py every path marked read has a cached content:
\* read_files is a subset of the keys of file_contents_cache in every
\* reachable state.
C33_ReadImpliesCached ==
    variant = "eager" => read_files \subseteq DOMAIN file_contents_cache

\* A file was read as "a" and then removed as "./a": the path "a" is still
\* marked read, and still cached.
C33_Witness ==
    /\ variant = "eager"
    /\ pc = "executed"
    /\ action.action_type = "remove_file"
    /\ action.file_path = PDotA
    /\ success
    /\ PA \in read_files


\* C34: as long as nothing but the agent changes the filesystem, every
\* cached content is the content the file designated by its key has on disk
\* now, also after a write under another spelling of the path.
C34_CacheCoherent ==
    oob = 0 =>
        \A p \in DOMAIN file_contents_cache :
           LET l == LocOf(fs_dirs, JoinRepo(p))
           IN  l \in DOMAIN fs_files => file_contents_cache[p] = fs_files[l]

\* C34, for the path string the agent wrote with: after a successful
\* edit_file or add_file the cache entry under the string of the action is
\* the content now on disk.
C34_CoherentUnderWrittenSpelling ==
    [][(/\ oracle_calls' = oracle_calls + 1
        /\ action'.action_type \in {"edit_file", "add_file"}
        /\ success')
         => LET p == action'.file_path
                l == LocOf(fs_dirs', JoinRepo(p))
            IN  /\ p \in DOMAIN file_contents_cache'
                /\ l \in DOMAIN fs_files'
                /\ file_contents_cache'[p] = fs_files'[l]]_vars


\* The recorded actions are numbered 1, 2, ..., n in this order.
C35_Numbered(taken) == \A i \in DOMAIN taken : taken[i].iteration = i

\* C35: when run() returns, the recorded actions of the summary carry the
\* iteration numbers 1..n without gaps; n is the summary's iterations when
\* the budget ran out, and iterations - 1 when the loop was left because
\* decide_next_action returned None (complete response or failed call).
C35_RunRecordShape ==
    [][(pc # "done" /\ pc' = "done")
         => /\ summary'.returned
            /\ C35_Numbered(summary'.actions_taken)
            /\ Len(summary'.actions_taken) =
                  IF oracle_calls' = oracle_calls + 1
                  THEN summary'.iterations - 1
                  ELSE summary'.iterations]_vars

\* run() returned after one executed action and a second turn in which the
\* oracle ended the run.
C35_Witness ==
    /\ pc = "done"
    /\ summary.returned
    /\ Len(summary.actions_taken) = 1
    /\ summary.iterations = 2
    /\ oracle_calls = 2

\* run() returned because the budget of two turns ran out after two executed
\* actions.
C35_ExhaustedRun ==
    /\ pc = "done"
    /\ summary.returned
    /\ Len(summary.actions_taken) = 2
    /\ summary.iterations = 2


\* Nothing exists at the path string p joined to the repository root.
C36_Missing(files, dirs, p) ==
    ~ExistsAt(files, dirs, LocOf(dirs, JoinRepo(p)))

\* C36: a remove_file of a path at which nothing exists returns false and
\* leaves the filesystem, file_contents_cache, read_files and edited_files
\* as they were, entries for that path included; and after a successful
\* remove_file the same remove_file fails.
C36_RemoveMissingChangesNothing ==
    [][(/\ oracle_calls' = oracle_calls + 1
        /\ action'.action_type = "remove_file"
        /\ action'.payload)
         => /\ C36_Missing(fs_files, fs_dirs, action'.file_path)
                 => /\ ~success'
                    /\ fs_files' = fs_files
                    /\ fs_dirs' = fs_dirs
                    /\ file_contents_cache' = file_contents_cache
                    /\ read_files' = read_files
                    /\ edited_files' = edited_files
            /\ success'
                 => /\ C36_Missing(fs_files', fs_dirs', action'.file_path)
                    /\ \A io \in BOOLEAN :
                          ~remove_file(World', action'.file_path, io).ok]_vars

\* A remove_file has failed on a path whose file is gone and which is still
\* marked read and cached.
C36_Witness ==
    /\ pc = "executed"
    /\ action.action_type = "remove_file"
    /\ action.payload
    /\ ~success
    /\ C36_Missing(fs_files, fs_dirs, action.file_path)
    /\ action.file_path \in read_files
    /\ action.file_path \in DOMAIN file_contents_cache


\* A step in which code_agent_poml.py executes an action.
C37_PomlExecutes ==
    /\ oracle_calls' = oracle_calls + 1
    /\ variant = "poml"
    /\ pc' = "executed"

\* C37: in code_agent_poml.py the request lists after an executed action
\* hold exactly the targets that action accepted, and both are empty after
\* an edit_file, add_file or remove_file action and after any action that
\* failed; they stay as they are until the next oracle call.
C37_RequestListsOfLastAction ==
    [][/\ C37_PomlExecutes
          => /\ (action'.action_type = "explore" /\ action'.payload)
                   => /\ requested_dirs'
                            = SelectSeq(action'.directories,
                                        LAMBDA d : AcceptedDir(d))
                      /\ requested_files'
                            = SelectSeq(action'.files, LAMBDA f : AcceptedFile(f))
             /\ (action'.action_type # "explore" \/ ~success')
                   => requested_dirs' = <<>> /\ requested_files' = <<>>
       /\ oracle_calls' = oracle_calls
          => UNCHANGED <<requested_dirs, requested_files>>]_vars

\* C37, without the clause on failed explores: the lists are emptied at the
\* start of execute_action, so they hold only accepted targets of the
\* action just executed, in the order of its lists, none after an action
\* other than explore or without its parameter object, and they stay as
\* they are until the next oracle call.
C37_RequestListsHoldAcceptedTargets ==
    [][/\ C37_PomlExecutes
          => /\ \E m \in 0 .. Len(action'.directories) :
                   requested_dirs'
                      = SelectSeq(SubSeq(action'.directories, 1, m),
                                  LAMBDA d : AcceptedDir(d))
             /\ \E n \in 0 .. Len(action'.files) :
                   requested_files'
                      = SelectSeq(SubSeq(action'.files, 1, n),
                                  LAMBDA f : AcceptedFile(f))
             /\ (action'.action_type # "explore" \/ ~action'.payload)
                   => requested_dirs' = <<>> /\ requested_files' = <<>>
       /\ oracle_calls' = oracle_calls
          => UNCHANGED <<requested_dirs, requested_files>>]_vars


\* C38: in code_agent_poml.py an executed action's findings are appended to
\* the memory's findings in their order, whether the action then succeeds
\* or fails; an oracle turn that executes nothing (a response with complete
\* = true, or no response) and every other step leave the findings as they
\* are.
C38_FindingsOfExecutedActions ==
    [][variant = "poml"
         => important_findings' =
               IF oracle_calls' = oracle_calls + 1 /\ response' # None
                  /\ ~response'.complete
               THEN important_findings \o response'.findings
               ELSE important_findings]_vars

\* Two failed actions of code_agent_poml.py left their findings: one
\* without its parameter object and with two findings in the first turn,
\* then an edit_file of a path the guard rejects.
C38_Witness ==
    /\ variant = "poml"
    /\ pc = "executed"
    /\ Len(actions_taken) = 2
    /\ ~actions_taken[1].success
    /\ ~success
    /\ action.action_type = "edit_file"
    /\ action.payload
    /\ ~validate_path_in_repo(action.file_path)
    /\ important_findings = <<"note", "more", "note">>

\* An explore of code_agent_poml.py failed on an exception and its finding
\* is in the memory.
C38_FindingOfRaisingExplore ==
    /\ variant = "poml"
    /\ pc = "executed"
    /\ action.action_type = "explore"
    /\ action.payload
    /\ ~success
    /\ important_findings = <<"note">>

\* A response with complete = true carried a finding, and the run ended
\* with no finding in the memory.
C38_CompleteFindingDropped ==
    /\ variant = "poml"
    /\ pc = "done"
    /\ response # None
    /\ response.complete
    /\ response.findings = <<"note">>
    /\ important_findings = <<>>
    /\ summary.important_findings = <<>>

====
